---- MODULE Spec2Model ----
(***************************************************************************)
(* A model of the Prow query tools of src/mcp_server.py: the three tools   *)
(* get_latest_job_run, get_job_logs and get_build_logs, the gateway        *)
(* make_request they share, and the upstream services they read.           *)
(*                                                                         *)
(* One invocation runs at a time.  A handler runs from one `await` to the  *)
(* next, so every action is the segment of a handler between two awaits.   *)
(* Strings built by f-strings are sequences of their pieces.               *)
(***************************************************************************)
EXTENDS Integers, Sequences, FiniteSets, TLC

\* ------------------------------------------------------------ bounds
\* Longest job collection the upstream serves.
MaxLen == 2
\* Most runs in a collection of runs that all carry their own name.
MaxRuns == 3

\* ------------------------------------------------------------ values
\* A key that is absent from a JSON object (dict.get returns None for it).
Missing == "<missing>"
\* None where the code holds a string built by an f-string.
NoUrl == <<>>

PROW_URL == "https://prow.ci.openshift.org"
GCS_URL == "https://gcsweb-ci.apps.ci.l2s4.p1.openshiftapps.com/gcs/test-platform-results/logs"

\* url = f"{PROW_URL}/prowjobs.js"
ProwJobsUrl == <<PROW_URL, "/prowjobs.js">>
\* f"{GCS_URL}/{job_name}/{build_id}/artifacts"
ArtifactsUrl(job_name, build_id) == <<GCS_URL, "/", job_name, "/", build_id, "/artifacts">>
\* f"{GCS_URL}/{job_name}/{build_id}/build-log.txt"
BuildLogUrl(job_name, build_id) == <<GCS_URL, "/", job_name, "/", build_id, "/build-log.txt">>

\* ------------------------------------------------------------ timestamps
\* status.startTime as the upstream writes it: with a zone designator, with
\* fractional seconds, without a zone, or not a timestamp at all.
T1Z == "2024-01-01T00:00:00Z"
T1FracZ == "2024-01-01T00:00:00.000Z"
T2Z == "2024-01-02T00:00:00Z"
T2Naive == "2024-01-02T00:00:00"
NotADate == "not-a-date"
StartTimes == {T1Z, T1FracZ, T2Z, T2Naive, NotADate}

\* dateutil's parse: the instant (in days of January 2024) and whether the
\* datetime carries a zone (aware) or not (naive); a ParserError otherwise.
parse_date(s) ==
    CASE s = T1Z -> [ok |-> TRUE, instant |-> 1, aware |-> TRUE]
      [] s = T1FracZ -> [ok |-> TRUE, instant |-> 1, aware |-> TRUE]
      [] s = T2Z -> [ok |-> TRUE, instant |-> 2, aware |-> TRUE]
      [] s = T2Naive -> [ok |-> TRUE, instant |-> 2, aware |-> FALSE]
      [] OTHER -> [ok |-> FALSE, instant |-> 0, aware |-> FALSE]

\* ------------------------------------------------------------ job records
\* A job record of the `items` array, flattened: metadata.name, spec.job,
\* status.startTime, status.build_id; Missing where the key (or the object
\* holding it) is absent.  status.state, completionTime and url are passed
\* through by status.get exactly as build_id is and are left out.
JobRecord(name, job, startTime, build_id) ==
    [name |-> name, job |-> job, startTime |-> startTime, build_id |-> build_id]

SeqsUpTo(S, n) == UNION {[1..k -> S] : k \in 0..n}

\* ------------------------------------------------------------ outcomes
\* What a piece of Python code ends with: a returned value or an exception.
Returns(v) == [kind |-> "return", value |-> v, exc |-> ""]
Raises(e) == [kind |-> "raise", value |-> <<>>, exc |-> e]
\* `return await get_build_logs(job_name, build_id)`: the handler goes on in
\* get_build_logs.
Delegates(job_name, build_id) ==
    [kind |-> "delegate", value |-> [job_name |-> job_name, build_id |-> build_id], exc |-> ""]

\* The mappings the tools return.
ErrorMapping(msg) == [error |-> msg]

VARIABLES
    api_key,        \* os.environ.get("API_KEY"): Missing or the token
    prow,           \* what GET {PROW_URL}/prowjobs.js answers
    gcs,            \* what GET .../build-log.txt answers
    pc,             \* where the running invocation stands
    tool,           \* the tool the host invoked
    arg,            \* its arguments
    inner,          \* job_name and build_id of the running get_build_logs
    artifacts_url,  \* the local of get_build_logs; NoUrl while unassigned
    matching_jobs,  \* the list the comprehension of get_latest_job_run built last
    requests,       \* the outbound requests of this invocation, in order
    result,         \* the mapping handed to the host
    pinned          \* an earlier invocation and its result, kept to compare

vars == <<api_key, prow, gcs, pc, tool, arg, inner, artifacts_url, matching_jobs, requests,
          result, pinned>>

\* ------------------------------------------------------------ gateway
\* The headers make_request builds (lines 16-23).
Headers(key) ==
    IF key # Missing
    THEN {<<"Authorization", <<"Bearer ", key>>>>, <<"Accept", <<"application/json">>>>}
    ELSE {}

\* The request make_request sends (lines 25-29); method is always the default.
make_request(url, key) ==
    [url |-> url, method |-> "GET", headers |-> Headers(key), state |-> "pending"]

\* What make_request ends with for an upstream answer p (lines 27-31):
\* client.request raises on a transport failure, raise_for_status on a non-2xx
\* status, response.json() on a body that is not JSON.
make_request_result(p) ==
    CASE p.kind = "transport_error" -> Raises("ConnectError")
      [] p.kind = "http_error" -> Raises("HTTPStatusError")
      [] p.kind = "invalid_json" -> Raises("JSONDecodeError")
      [] OTHER -> Returns(p)

\* Whether the request itself succeeded (a 2xx answer arrived).
Answered(p) == p.kind \notin {"transport_error", "http_error"}

\* ------------------------------------------------------------ get_latest_job_run
\* prowjobs = response.get("items", []) (lines 51 and 99).
Items(p) == IF p.has_items THEN p.items ELSE <<>>

\* The filter of lines 54-57: the records named job_name that hold a startTime
\* key, in the order of the collection.
RECURSIVE FilterByName(_, _)
FilterByName(prowjobs, job_name) ==
    IF prowjobs = <<>> THEN <<>>
    ELSE LET job == Head(prowjobs)
             rest == FilterByName(Tail(prowjobs), job_name)
         IN IF job.job = job_name /\ job.startTime # Missing
            THEN <<job>> \o rest
            ELSE rest

StartKey(job) == parse_date(job.startTime)

\* A descending sort that puts a record before the equal ones already placed.
RECURSIVE InsertDescFirst(_, _)
InsertDescFirst(sorted, job) ==
    IF sorted = <<>> THEN <<job>>
    ELSE IF StartKey(Head(sorted)).instant > StartKey(job).instant
         THEN <<Head(sorted)>> \o InsertDescFirst(Tail(sorted), job)
         ELSE <<job>> \o sorted

\* list.sort(reverse=True) is stable: a record goes after every record placed
\* before it whose key is greater or equal.
RECURSIVE InsertDesc(_, _)
InsertDesc(sorted, job) ==
    IF sorted = <<>> THEN <<job>>
    ELSE IF StartKey(Head(sorted)).instant >= StartKey(job).instant
         THEN <<Head(sorted)>> \o InsertDesc(Tail(sorted), job)
         ELSE <<job>> \o sorted

RECURSIVE StableSortDesc(_)
StableSortDesc(jobs) ==
    IF jobs = <<>> THEN <<>>
    ELSE InsertDesc(StableSortDesc(SubSeq(jobs, 1, Len(jobs) - 1)), jobs[Len(jobs)])

\* matching_jobs.sort(key=parse_date(startTime), reverse=True), lines 63-66.
\* Every key is computed before any comparison, so one unparsable startTime
\* raises; comparing a naive with an aware datetime raises TypeError, and a
\* sort of a list that holds both compares some such pair.
sort_by_start(jobs) ==
    IF \E i \in DOMAIN jobs : ~StartKey(jobs[i]).ok
    THEN Raises("ParserError")
    ELSE IF \E i, j \in DOMAIN jobs : StartKey(jobs[i]).aware # StartKey(jobs[j]).aware
         THEN Raises("TypeError")
         ELSE Returns(StableSortDesc(jobs))

\* The mapping of lines 71-78 for the record `latest`.
LatestMapping(latest) ==
    [job_id |-> latest.name, start |-> latest.startTime, build_id |-> latest.build_id]

\* A list that is not built anew by each call but appended to.
matching_appended(prowjobs, job_name) == matching_jobs \o FilterByName(prowjobs, job_name)

\* matching_jobs = [job for job in prowjobs if ...], lines 54-57: a new list.
matching(prowjobs, job_name) == FilterByName(prowjobs, job_name)

\* The try block of get_latest_job_run after the await, lines 47-78.
get_latest_job_run_body(response, job_name) ==
    IF response.kind = "raise" THEN response
    ELSE IF response.value.kind = "falsy"
    THEN Returns(ErrorMapping(<<"No response from Prow API">>))
    ELSE IF response.value.kind = "array"
    THEN Raises("AttributeError")
    ELSE LET found == matching(Items(response.value), job_name)
         IN IF found = <<>>
            THEN Returns(ErrorMapping(<<"No matching job found for: ", job_name>>))
            ELSE LET sorted == sort_by_start(found)
                 IN IF sorted.kind = "raise" THEN sorted
                    ELSE IF sorted.value[1].name = Missing THEN Raises("KeyError")
                    ELSE Returns(LatestMapping(sorted.value[1]))

\* An except clause that lets everything but httpx's errors through.
HttpOnlyBoundary(outcome) ==
    IF outcome.kind = "raise" /\ outcome.exc \in {"ConnectError", "HTTPStatusError"}
    THEN Returns(ErrorMapping(<<"Failed to fetch job info: ", outcome.exc>>))
    ELSE outcome

\* `except Exception as e` of lines 79-80 and 120-121.
ToolBoundary(outcome) ==
    IF outcome.kind = "raise"
    THEN Returns(ErrorMapping(<<"Failed to fetch job info: ", outcome.exc>>))
    ELSE outcome

\* ------------------------------------------------------------ get_job_logs
\* next(job for job in prowjobs if job["metadata"]["name"] == job_id), lines
\* 102-105: the index of the first record named job_id, 0 when the generator
\* is exhausted; a record without metadata.name met on the way raises.
RECURSIVE FindById(_, _, _)
FindById(prowjobs, job_id, i) ==
    IF i > Len(prowjobs) THEN Returns(0)
    ELSE IF prowjobs[i].name = Missing THEN Raises("KeyError")
    ELSE IF prowjobs[i].name = job_id THEN Returns(i)
    ELSE FindById(prowjobs, job_id, i + 1)

\* The try block without the check of line 115.
get_job_logs_body_unchecked(response, job_id) ==
    IF response.kind = "raise" THEN response
    ELSE IF response.value.kind = "falsy"
    THEN Returns(ErrorMapping(<<"No response from Prow API">>))
    ELSE IF response.value.kind = "array"
    THEN Raises("AttributeError")
    ELSE LET prowjobs == Items(response.value)
             found == FindById(prowjobs, job_id, 1)
         IN IF found.kind = "raise" THEN found
            ELSE IF found.value = 0
            THEN Returns(ErrorMapping(<<"No job found with ID: ", job_id>>))
            ELSE Delegates(prowjobs[found.value].job, prowjobs[found.value].build_id)

\* The try block of get_job_logs after the await, lines 95-118.
get_job_logs_body(response, job_id) ==
    IF response.kind = "raise" THEN response
    ELSE IF response.value.kind = "falsy"
    THEN Returns(ErrorMapping(<<"No response from Prow API">>))
    ELSE IF response.value.kind = "array"
    THEN Raises("AttributeError")
    ELSE LET prowjobs == Items(response.value)
             found == FindById(prowjobs, job_id, 1)
         IN IF found.kind = "raise" THEN found
            ELSE IF found.value = 0
            THEN Returns(ErrorMapping(<<"No job found with ID: ", job_id>>))
            ELSE LET matching_job == prowjobs[found.value]
                 IN IF matching_job.build_id = Missing \/ matching_job.job = Missing
                    THEN Returns(ErrorMapping(<<"Could not find build ID or job name">>))
                    ELSE Delegates(matching_job.job, matching_job.build_id)

\* ------------------------------------------------------------ get_build_logs
\* The local artifacts_url left unassigned before the fetch.
ArtifactsUrlLate(job_name, build_id) == NoUrl

\* artifacts_url = f"{GCS_URL}/{job_name}/{build_id}/artifacts", line 137.
AssignArtifactsUrl(job_name, build_id) == ArtifactsUrl(job_name, build_id)

\* client.get(f"{GCS_URL}/{job_name}/{build_id}/build-log.txt"), lines 139-140:
\* a client of its own, no headers passed.
build_log_request(job_name, build_id) ==
    [url |-> BuildLogUrl(job_name, build_id), method |-> "GET", headers |-> {},
     state |-> "pending"]

\* The text the object store holds at a URL.
TextAt(url) == <<"text of ">> \o url

\* The fetch without raise_for_status: an error page is taken for the log.
build_log_fetch_unchecked(g, url) ==
    CASE g = "transport_error" -> Raises("ConnectError")
      [] g = "http_error" -> Returns(<<"error page">>)
      [] OTHER -> Returns(TextAt(url))

\* Lines 140-142: client.get raises on a transport failure, raise_for_status
\* on a non-2xx status, else response.text.
build_log_fetch(g, url) ==
    CASE g = "transport_error" -> Raises("ConnectError")
      [] g = "http_error" -> Raises("HTTPStatusError")
      [] OTHER -> Returns(TextAt(url))

\* Lines 142-153 after the await: the mapping get_build_logs returns.  A local
\* that was never assigned makes the success branch raise NameError, which the
\* except clause catches like any other.
get_build_logs_result(fetched, job_name, build_id, url) ==
    IF fetched.kind = "return" /\ url # NoUrl
    THEN [build_id |-> build_id, job_name |-> job_name, logs |-> fetched.value,
          artifacts_url |-> url]
    ELSE [error |-> <<"Failed to fetch logs: ",
                      IF fetched.kind = "raise" THEN fetched.exc ELSE "NameError">>,
          artifacts_url |-> url]

\* ------------------------------------------------------------ the invocations
JobNames == {"a", "b"}
JobIds == {"j1", "j2"}
BuildIds == {"b1", "b2"}

NoArg == [job_name |-> Missing, job_id |-> Missing, build_id |-> Missing]
NoInner == [job_name |-> Missing, build_id |-> Missing]
NoResult == [pending |-> TRUE]
NoPin == [tool |-> Missing, arg |-> NoArg, result |-> NoResult, over |-> FALSE]

\* The last request of the invocation has been answered, or has failed.
Settle(reqs, ok) == [reqs EXCEPT ![Len(reqs)].state = IF ok THEN "ok" ELSE "failed"]

\* Whether the handler got as far as the list comprehension.
ReachedFilter(p) == p.kind \in {"object"}

\* get_latest_job_run up to its await: url and the request of make_request.
get_latest_job_run_call(job_name) ==
    /\ pc = "idle"
    /\ tool' = "get_latest_job_run"
    /\ arg' = [NoArg EXCEPT !.job_name = job_name]
    /\ requests' = <<make_request(ProwJobsUrl, api_key)>>
    /\ pc' = "await_prow"
    /\ UNCHANGED <<api_key, prow, gcs, inner, artifacts_url, matching_jobs, result, pinned>>

\* get_latest_job_run from the answer of the upstream to its return.
get_latest_job_run_resume ==
    /\ pc = "await_prow"
    /\ tool = "get_latest_job_run"
    /\ LET outcome ==
             ToolBoundary(get_latest_job_run_body(make_request_result(prow), arg.job_name))
       IN /\ requests' = Settle(requests, Answered(prow))
          /\ matching_jobs' = IF ReachedFilter(prow)
                               THEN matching(Items(prow), arg.job_name)
                               ELSE matching_jobs
          /\ IF outcome.kind = "return"
             THEN result' = outcome.value /\ pc' = "done"
             ELSE result' = result /\ pc' = "raised"
    /\ UNCHANGED <<api_key, prow, gcs, tool, arg, inner, artifacts_url, pinned>>

\* get_job_logs up to its first await.
get_job_logs_call(job_id) ==
    /\ pc = "idle"
    /\ tool' = "get_job_logs"
    /\ arg' = [NoArg EXCEPT !.job_id = job_id]
    /\ requests' = <<make_request(ProwJobsUrl, api_key)>>
    /\ pc' = "await_prow"
    /\ UNCHANGED <<api_key, prow, gcs, inner, artifacts_url, matching_jobs, result, pinned>>

\* get_job_logs from the answer of the upstream to its return, or into
\* get_build_logs up to the await of the build-log fetch.
get_job_logs_resume ==
    /\ pc = "await_prow"
    /\ tool = "get_job_logs"
    /\ LET outcome == ToolBoundary(get_job_logs_body(make_request_result(prow), arg.job_id))
       IN IF outcome.kind = "delegate"
          THEN /\ inner' = outcome.value
               /\ artifacts_url' =
                      AssignArtifactsUrl(outcome.value.job_name, outcome.value.build_id)
               /\ requests' = Append(Settle(requests, Answered(prow)),
                      build_log_request(outcome.value.job_name, outcome.value.build_id))
               /\ pc' = "await_gcs"
               /\ result' = result
          ELSE /\ requests' = Settle(requests, Answered(prow))
               /\ IF outcome.kind = "return"
                  THEN result' = outcome.value /\ pc' = "done"
                  ELSE result' = result /\ pc' = "raised"
               /\ UNCHANGED <<inner, artifacts_url>>
    /\ UNCHANGED <<api_key, prow, gcs, tool, arg, matching_jobs, pinned>>

\* get_build_logs, invoked by the host, up to its await.
get_build_logs_call(job_name, build_id) ==
    /\ pc = "idle"
    /\ tool' = "get_build_logs"
    /\ arg' = [NoArg EXCEPT !.job_name = job_name, !.build_id = build_id]
    /\ inner' = [job_name |-> job_name, build_id |-> build_id]
    /\ artifacts_url' = AssignArtifactsUrl(job_name, build_id)
    /\ requests' = <<build_log_request(job_name, build_id)>>
    /\ pc' = "await_gcs"
    /\ UNCHANGED <<api_key, prow, gcs, matching_jobs, result, pinned>>

\* get_build_logs from the answer of the object store to its return; a
\* get_job_logs that awaits it returns the same mapping.
get_build_logs_resume ==
    /\ pc = "await_gcs"
    /\ LET fetched == build_log_fetch(gcs, BuildLogUrl(inner.job_name, inner.build_id))
       IN result' = get_build_logs_result(fetched, inner.job_name, inner.build_id,
                                          artifacts_url)
    /\ requests' = Settle(requests, gcs = "ok")
    /\ pc' = "done"
    /\ UNCHANGED <<api_key, prow, gcs, tool, arg, inner, artifacts_url, matching_jobs, pinned>>

\* The host takes the mapping (or the exception); the frames are gone.
Deliver ==
    /\ pc \in {"done", "raised"}
    /\ pc' = "idle"
    /\ tool' = Missing
    /\ arg' = NoArg
    /\ inner' = NoInner
    /\ artifacts_url' = NoUrl
    /\ requests' = <<>>
    /\ result' = NoResult
    /\ pinned' = IF pinned = NoPin THEN pinned ELSE [pinned EXCEPT !.over = TRUE]
    /\ UNCHANGED <<api_key, prow, gcs, matching_jobs>>

\* Keep one finished invocation and its result, to compare later ones with;
\* `over` once that invocation has been delivered.
Pin ==
    /\ pc = "done"
    /\ pinned = NoPin
    /\ pinned' = [tool |-> tool, arg |-> arg, result |-> result, over |-> FALSE]
    /\ UNCHANGED <<api_key, prow, gcs, pc, tool, arg, inner, artifacts_url, matching_jobs,
                   requests, result>>

\* ------------------------------------------------------------ the upstream
\* Answers of the job API that carry no collection: a transport failure, a
\* non-2xx status, a body that is not JSON, a falsy JSON value (null, {}, []),
\* a JSON array, and an object without `items`.
NoCollection(kind) == [kind |-> kind, has_items |-> FALSE, items |-> <<>>]
ProwFailures ==
    {NoCollection(k) : k \in {"transport_error", "http_error", "invalid_json", "falsy",
                              "array", "object"}}
Collection(items) == [kind |-> "object", has_items |-> TRUE, items |-> items]

GcsAnswers == {"ok", "http_error", "transport_error"}
ApiKeys == {Missing, "token"}

Idle ==
    /\ pc = "idle"
    /\ tool = Missing
    /\ arg = NoArg
    /\ inner = NoInner
    /\ artifacts_url = NoUrl
    /\ matching_jobs = <<>>
    /\ requests = <<>>
    /\ result = NoResult
    /\ pinned = NoPin

\* Records with loosely typed fields: every key may be absent.
LooseRecords ==
    {JobRecord(n, j, t, b) : n \in {Missing, "j1"}, j \in {Missing, "a"},
                             t \in {Missing, T1Z, NotADate}, b \in {Missing, "b1"}}

Init ==
    /\ api_key \in ApiKeys
    /\ gcs \in GcsAnswers
    /\ prow \in ProwFailures \cup {Collection(c) : c \in SeqsUpTo(LooseRecords, MaxLen)}
    /\ Idle

Next ==
    \/ \E n \in JobNames : get_latest_job_run_call(n)
    \/ get_latest_job_run_resume
    \/ \E id \in JobIds : get_job_logs_call(id)
    \/ get_job_logs_resume
    \/ \E n \in JobNames, b \in BuildIds : get_build_logs_call(n, b)
    \/ get_build_logs_resume
    \/ Deliver

Spec == Init /\ [][Next]_vars

\* Resolution by name: every run carries its own name (metadata.name is
\* unique per run), a job name and any startTime, or none.
RunNames == <<"j1", "j2", "j3", "j4", "j5", "j6">>
Runs == [job : JobNames, startTime : StartTimes \cup {Missing}]
NamedRuns ==
    {[i \in DOMAIN c |-> JobRecord(RunNames[i], c[i].job, c[i].startTime, "b1")] :
        c \in SeqsUpTo(Runs, MaxRuns)}

InitResolve ==
    /\ api_key = "token"
    /\ gcs = "ok"
    /\ prow \in {Collection(c) : c \in NamedRuns}
    /\ Idle

NextResolve ==
    \/ \E n \in JobNames : get_latest_job_run_call(n)
    \/ get_latest_job_run_resume
    \/ Deliver

SpecResolve == InitResolve /\ [][NextResolve]_vars

\* Lookup by id: names may repeat or be absent, and a record may lack its
\* job name or its build id.
LogRecords ==
    {JobRecord(n, jb[1], T1Z, jb[2]) :
        n \in {Missing, "j1", "j2"},
        jb \in {<<Missing, "b1">>, <<"a", Missing>>, <<"a", "b1">>, <<"b", "b2">>}}

InitLogs ==
    /\ api_key = "token"
    /\ gcs \in GcsAnswers
    /\ prow \in ProwFailures \cup {Collection(c) : c \in SeqsUpTo(LogRecords, MaxLen)}
    /\ Idle

NextLogs ==
    \/ \E id \in JobIds : get_job_logs_call(id)
    \/ get_job_logs_resume
    \/ \E n \in JobNames, b \in BuildIds : get_build_logs_call(n, b)
    \/ get_build_logs_resume
    \/ Deliver

SpecLogs == InitLogs /\ [][NextLogs]_vars

\* Repeated invocations against one upstream, one of them kept to compare
\* with: well-formed records of two jobs.
IdemRecords ==
    {JobRecord(n, j, t, "b1") : n \in {"j1", "j2"}, j \in JobNames, t \in {T1Z, T2Z}}

InitIdem ==
    /\ api_key = "token"
    /\ gcs \in GcsAnswers
    /\ prow \in ProwFailures \cup {Collection(c) : c \in SeqsUpTo(IdemRecords, MaxLen)}
    /\ Idle

NextIdem == Next \/ Pin

SpecIdem == InitIdem /\ [][NextIdem]_vars

\* ------------------------------------------------------------ properties
IsError(m) == "error" \in DOMAIN m

\* The records of collection C that get_latest_job_run(n) is to choose among:
\* named n, with a startTime key; and those of them whose startTime parses.
Candidates(C, n) == {i \in DOMAIN C : C[i].job = n /\ C[i].startTime # Missing}
Parsable(C, n) == {i \in Candidates(C, n) : parse_date(C[i].startTime).ok}
Instant(C, i) == parse_date(C[i].startTime).instant
Latest(C, n) == {i \in Parsable(C, n) : \A j \in Parsable(C, n) : Instant(C, j) <= Instant(C, i)}

\* The mapping describes record r.
Describes(m, r) == /\ ~IsError(m)
                   /\ "job_id" \in DOMAIN m
                   /\ m.job_id = r.name
                   /\ m.start = r.startTime

FinishedLatest == pc = "done" /\ tool = "get_latest_job_run" /\ prow.has_items

\* C1: get_latest_job_run(n) over a collection C returns a record of C named
\* n whose startTime is the greatest that parses, and returns the error
\* 'No matching job found' exactly when no record of C is named n and holds a
\* startTime.
C1_LatestByName ==
    FinishedLatest =>
        /\ (Candidates(prow.items, arg.job_name) = {}
              <=> result = [error |-> <<"No matching job found for: ", arg.job_name>>])
        /\ (Parsable(prow.items, arg.job_name) # {}
              => \E i \in Latest(prow.items, arg.job_name) : Describes(result, prow.items[i]))

\* C2: a matching record whose startTime does not parse is left out of the
\* comparison: when another matching record parses, the call still returns
\* the record with the greatest parsable startTime and no error.
C2_UnparsableExcluded ==
    (/\ FinishedLatest
     /\ Parsable(prow.items, arg.job_name) # Candidates(prow.items, arg.job_name)
     /\ Parsable(prow.items, arg.job_name) # {})
        => /\ ~IsError(result)
           /\ \E i \in Latest(prow.items, arg.job_name) : Describes(result, prow.items[i])

\* C10: when get_latest_job_run returns a record, it is the earliest record
\* in the order of the collection among the matching records that share the
\* greatest parsed start time.
C10_TieBreakEarliest ==
    (FinishedLatest /\ ~IsError(result)) =>
        /\ Latest(prow.items, arg.job_name) # {}
        /\ \E i \in Latest(prow.items, arg.job_name) :
              /\ \A j \in Latest(prow.items, arg.job_name) : i <= j
              /\ Describes(result, prow.items[i])

\* A call returned a record while a later record of the collection ties with
\* it under another spelling of the same instant.
C10_Witness ==
    /\ FinishedLatest
    /\ ~IsError(result)
    /\ \E i, j \in Latest(prow.items, arg.job_name) :
          /\ i < j
          /\ prow.items[i].startTime # prow.items[j].startTime
          /\ Describes(result, prow.items[i])

\* The get_build_logs frame that has returned, invoked by the host or awaited
\* by get_job_logs.
FinishedBuildLogs == pc = "done" /\ inner # NoInner

\* C3: get_build_logs(job_name, build_id) always returns artifacts_url =
\* <GCS base>/<job_name>/<build_id>/artifacts: with build_id, job_name and
\* logs when the build-log fetch succeeds, with an error message when it fails.
C3_ArtifactsUrlAlways ==
    FinishedBuildLogs =>
        /\ "artifacts_url" \in DOMAIN result
        /\ result.artifacts_url # NoUrl
        /\ result.artifacts_url =
              <<GCS_URL, "/", inner.job_name, "/", inner.build_id, "/artifacts">>
        /\ IF gcs = "ok"
           THEN /\ DOMAIN result = {"build_id", "job_name", "logs", "artifacts_url"}
                /\ result.build_id = inner.build_id
                /\ result.job_name = inner.job_name
           ELSE DOMAIN result = {"error", "artifacts_url"}

\* A get_build_logs invoked by the host whose fetch failed has returned.
C3_Witness ==
    /\ FinishedBuildLogs
    /\ tool = "get_build_logs"
    /\ gcs = "http_error"
    /\ IsError(result)
    /\ result.artifacts_url = <<GCS_URL, "/", arg.job_name, "/", arg.build_id, "/artifacts">>

\* get_job_logs got past its lookup over a collection.
LookedUp == tool = "get_job_logs" /\ pc \in {"await_gcs", "done"} /\ prow.has_items
Named(C, id) == {i \in DOMAIN C : C[i].name = id}
Complete(r) == r.job # Missing /\ r.build_id # Missing

\* C4: the lookup by id of get_job_logs depends on nothing but the record
\* named id: when exactly one record of the collection has that name, its
\* job name and build id are the ones the log fetch uses, whatever the other
\* records and their order; when none has, the call returns 'No job found
\* with ID'.
C4_PureLookup ==
    LookedUp =>
        /\ (Named(prow.items, arg.job_id) = {}
              => result = [error |-> <<"No job found with ID: ", arg.job_id>>])
        /\ \A i \in Named(prow.items, arg.job_id) :
              (Named(prow.items, arg.job_id) = {i} /\ Complete(prow.items[i]))
                  => inner = [job_name |-> prow.items[i].job,
                              build_id |-> prow.items[i].build_id]

\* The record the lookup of get_job_logs stops at: the first one named id,
\* every record before it carrying a name.
Found(C, id) ==
    {i \in Named(C, id) : \A j \in 1..(i - 1) : C[j].name \notin {id, Missing}}

\* C5: get_job_logs issues the build-log request only after the collection
\* was fetched and the record found by id holds both its job name and its
\* build id; when the record found lacks one of them, the call returns
\* 'Could not find build ID or job name' and issues no build-log request;
\* otherwise it returns what get_build_logs returns for that job name and
\* build id.
C5_ChainedLogs ==
    (tool = "get_job_logs") =>
        /\ (Len(requests) > 1) =>
              /\ requests[1].url = <<PROW_URL, "/prowjobs.js">>
              /\ requests[1].state = "ok"
              /\ prow.has_items
              /\ \E i \in Found(prow.items, arg.job_id) :
                    /\ Complete(prow.items[i])
                    /\ requests[2].url = <<GCS_URL, "/", prow.items[i].job, "/",
                                           prow.items[i].build_id, "/build-log.txt">>
                    /\ pc = "done" =>
                          /\ "artifacts_url" \in DOMAIN result
                          /\ result.artifacts_url =
                                <<GCS_URL, "/", prow.items[i].job, "/",
                                  prow.items[i].build_id, "/artifacts">>
                          /\ IsError(result) <=> gcs # "ok"
                          /\ ~IsError(result) =>
                                /\ result.job_name = prow.items[i].job
                                /\ result.build_id = prow.items[i].build_id
        /\ (pc = "done" /\ prow.has_items) =>
              \A i \in Found(prow.items, arg.job_id) :
                  IF Complete(prow.items[i])
                  THEN Len(requests) = 2
                  ELSE /\ result = [error |-> <<"Could not find build ID or job name">>]
                       /\ Len(requests) = 1

\* A get_job_logs that found a complete record, fetched its log and returned.
C5_Witness ==
    /\ tool = "get_job_logs"
    /\ pc = "done"
    /\ Len(requests) = 2
    /\ ~IsError(result)
    /\ Len(prow.items) > 1
    /\ prow.items[1].name # arg.job_id

\* The upstream answers under which a tool has nothing to return but an error.
ProwFailed == prow.kind # "object"
GcsFailed == gcs # "ok"

\* C6: no failure inside a tool escapes as an exception: every invocation of
\* get_latest_job_run, get_job_logs and get_build_logs ends with a returned
\* mapping; the mapping holds `error` after a transport failure, a non-2xx
\* status, an empty or malformed payload or a malformed record, and a mapping
\* without `error` is returned only when every request succeeded and the
\* record or the log asked for was obtained.
C6_ErrorsAreMappings ==
    /\ pc # "raised"
    /\ pc = "done" =>
          /\ result # NoResult
          /\ (tool \in {"get_latest_job_run", "get_job_logs"} /\ ProwFailed) => IsError(result)
          /\ (inner # NoInner /\ GcsFailed) => IsError(result)
          /\ IsError(result) => result.error # <<>>
          /\ ~IsError(result) =>
                /\ \A k \in DOMAIN requests : requests[k].state = "ok"
                /\ tool = "get_latest_job_run" =>
                      /\ ~ProwFailed
                      /\ \E i \in Candidates(prow.items, arg.job_name) :
                            /\ prow.items[i].name # Missing
                            /\ Describes(result, prow.items[i])
                /\ tool # "get_latest_job_run" =>
                      /\ ~GcsFailed
                      /\ "logs" \in DOMAIN result
                /\ tool = "get_job_logs" =>
                      /\ ~ProwFailed
                      /\ \E i \in Named(prow.items, arg.job_id) :
                            /\ result.job_name = prow.items[i].job
                            /\ result.build_id = prow.items[i].build_id

\* A lookup that met a record without metadata.name has returned an error.
C6_Witness ==
    /\ pc = "done"
    /\ tool = "get_job_logs"
    /\ prow.has_items
    /\ \E i \in DOMAIN prow.items : prow.items[i].name = Missing
    /\ result = [error |-> <<"Failed to fetch job info: ", "KeyError">>]

\* C7: every outbound request carries Accept: application/json, and carries
\* Authorization: Bearer <token> exactly when an API credential is set in the
\* environment.
C7_GatewayHeaders ==
    \A k \in DOMAIN requests :
        /\ <<"Accept", <<"application/json">>>> \in requests[k].headers
        /\ (api_key # Missing
              <=> <<"Authorization", <<"Bearer ", api_key>>>> \in requests[k].headers)

\* C9: within one invocation no request is attempted twice and a failed
\* attempt ends the invocation with an error: get_latest_job_run and
\* get_build_logs issue exactly one request, get_job_logs at most two, the job
\* collection first and the build log only after the first was answered.
C9_NoRetrySequential ==
    /\ \A k, l \in DOMAIN requests : requests[k].url = requests[l].url => k = l
    /\ \A k \in DOMAIN requests : k < Len(requests) => requests[k].state = "ok"
    /\ pc = "idle" => requests = <<>>
    /\ tool \in {"get_latest_job_run", "get_build_logs"} => Len(requests) = 1
    /\ tool = "get_job_logs" =>
          /\ Len(requests) \in {1, 2}
          /\ requests[1].url = <<PROW_URL, "/prowjobs.js">>
          /\ Len(requests) = 2 =>
                requests[2].url = <<GCS_URL, "/", inner.job_name, "/", inner.build_id,
                                    "/build-log.txt">>
    /\ pc \in {"await_prow", "await_gcs"} => requests[Len(requests)].state = "pending"
    /\ pc = "done" =>
          /\ requests[Len(requests)].state \in {"ok", "failed"}
          /\ requests[Len(requests)].state = "failed" => IsError(result)

\* get_job_logs made both requests, the second failed, and the failure was
\* returned.
C9_Witness ==
    /\ pc = "done"
    /\ tool = "get_job_logs"
    /\ Len(requests) = 2
    /\ requests[2].state = "failed"
    /\ IsError(result)

\* C8: an invocation of get_latest_job_run or get_job_logs returns what an
\* earlier invocation with the same argument returned against the same
\* upstream, whatever ran in between.
C8_Idempotent ==
    (/\ pc = "done"
     /\ tool \in {"get_latest_job_run", "get_job_logs"}
     /\ pinned.over
     /\ pinned.tool = tool
     /\ pinned.arg = arg)
        => result = pinned.result

\* A record was returned by an invocation that is over, and a later
\* invocation with the same job name, over a collection that holds runs of
\* another job too, has returned the same record.
C8_Witness ==
    /\ pc = "done"
    /\ tool = "get_latest_job_run"
    /\ pinned.over
    /\ pinned.tool = tool
    /\ pinned.arg = arg
    /\ ~IsError(result)
    /\ result = pinned.result
    /\ \E n \in JobNames : n # arg.job_name /\ FilterByName(prow.items, n) # <<>>

====
